---- MODULE Spec2Model ----
(***************************************************************************)
(* Model of the bubble-shooter engine, src/src/game/BubbleShooterEngine.ts. *)
(* The file holds two variants of class BubbleShooterEngine (lines 28-867   *)
(* and lines 896-1642); the variable `variant` says which one runs.         *)
(*                                                                          *)
(* Coordinates and velocities are fixed-point numbers in tenths of a pixel  *)
(* (the source uses IEEE doubles); velocity components are rounded to the   *)
(* nearest tenth.  Rendering, particles and the showPath flag are left out. *)
(*                                                                          *)
(* The specifications run the same handlers:                                *)
(*   Spec       the public methods that change the game, the frames and     *)
(*              the auto-shoot timers, on small first levels;               *)
(*   SpecPlay   manual play (clicks and frames) on richer first levels;     *)
(*   SpecTower  a long manual game that stacks bubbles under one stem;      *)
(*   SpecWall   one manual shot at bubbles next to the right wall;          *)
(*   SpecTurn   one manual shot in any direction, downwards and of zero     *)
(*              length included;                                            *)
(*   SpecAuto   AI mode with several pending timers, and destroy();         *)
(*   SpecRelay  AI mode over several shots in a row;                        *)
(*   SpecDeep   manual shots of three colours at the stem of level 8, until *)
(*              the last grid row is full;                                  *)
(*   SpecCeiling  one manual shot that reaches the ceiling off the right    *)
(*              wall;                                                       *)
(*   SpecAim    one manual shot, to the ceiling or level, with weakly fair  *)
(*              frames.                                                     *)
(* Two more call functions of a constructed engine:                         *)
(*   SpecGrid   the cell/pixel conversions and getAdjacentPositions on      *)
(*              every valid cell;                                           *)
(*   SpecPath   AStarPathfinder.findPath, one loop iteration per step.      *)
(***************************************************************************)
EXTENDS Integers, Sequences, FiniteSets, TLC

-----------------------------------------------------------------------------
(* Bounds of the model *)

\* createRandomBubble and createLevel draw colours from the first NumColors
\* entries of the palette `colors`
NumColors == 2

\* shots are fired while stats.shots < MaxShots (PlayShots and TowerShots in
\* the specifications SpecPlay and SpecTower)
MaxShots == 1

PlayShots == 2

TowerShots == 8

\* in SpecDeep the levels go up to DeepLevel before the first shot, and
\* createRandomBubble draws from the first DeepColors colours
DeepLevel == 8

DeepColors == 3

\* nextLevel() is taken while stats.level < MaxLevel
MaxLevel == 2

\* at most MaxTimers auto-shoot timers are pending at once
MaxTimers == 1

\* in SpecAuto at most AutoTimers timers are pending at once
AutoTimers == 2

-----------------------------------------------------------------------------
(* Program constants *)

bubbleRadius == 20
gridRows == 12
gridCols == 20
canvasWidth == 800
canvasHeight == 600

\* tenths of a pixel per pixel
Px(n) == 10 * n

Abs(n) == IF n < 0 THEN -n ELSE n
Min(a, b) == IF a < b THEN a ELSE b
Max(a, b) == IF a > b THEN a ELSE b

\* Math.round on a quotient n/d (d > 0): nearest integer, halves towards +infinity
RoundDiv(n, d) == (2 * n + d) \div (2 * d)

RECURSIVE SqrtIter(_, _, _)
SqrtIter(n, lo, hi) ==
    IF lo >= hi THEN lo
    ELSE LET mid == (lo + hi + 1) \div 2
         IN IF mid * mid <= n THEN SqrtIter(n, mid, hi) ELSE SqrtIter(n, lo, mid - 1)

\* floor of Math.sqrt(n) for 0 <= n < 2^30
ISqrt(n) == SqrtIter(n, 0, 32767)

colors == <<"#ff6b6b", "#4ecdc4", "#45b7d1", "#96ceb4", "#feca57", "#ff9ff3">>

Palette == {colors[i] : i \in 1..NumColors}

Variants == {1, 2}

\* this.shooterX = this.width / 2
shooterX == Px(canvasWidth) \div 2

\* this.shooterY = this.height - 30 (first variant), this.height - 40 (second)
shooterY(v) == IF v = 1 THEN Px(canvasHeight - 30) ELSE Px(canvasHeight - 40)

\* const speed = 12 (first variant), 15 (second)
speed(v) == IF v = 1 THEN Px(12) ELSE Px(15)

-----------------------------------------------------------------------------
(* Hex grid geometry *)

\* col * (bubbleRadius * 2) + (row % 2) * bubbleRadius + bubbleRadius
CellX(row, col) == Px(col * (bubbleRadius * 2) + (row % 2) * bubbleRadius + bubbleRadius)

\* bubbleRadius * 1.7, the distance between two rows
RowHeight == (Px(bubbleRadius) * 17) \div 10

\* row * (bubbleRadius * 1.7) + bubbleRadius
CellY(row, col) == row * RowHeight + Px(bubbleRadius)

\* the slots of the array bubbleGrid: gridRows rows of gridCols entries each
Slots == (0..(gridRows - 1)) \X (0..(gridCols - 1))

\* colsInRow of createLevel: odd rows hold one cell less
ColsInRow(row) == gridCols - (row % 2)

\* the cells createLevel can fill: the valid cells of the hex grid
ValidCells == {s \in Slots : s[2] < ColsInRow(s[1])}

\* the bubble object the placement code builds for a cell
MakeBubble(row, col, color) ==
    [x |-> CellX(row, col), y |-> CellY(row, col), color |-> color,
     row |-> row, col |-> col]

\* bubbleGrid is modelled as a function from the occupied slots to their bubbles;
\* a slot outside its domain holds null
Occupied(g, row, col) == <<row, col>> \in DOMAIN g

EmptyGrid == [s \in {} |-> MakeBubble(0, 0, colors[1])]

\* bubbleGrid[row][col] = bubble
PutBubble(g, row, col, b) ==
    [s \in DOMAIN g \cup {<<row, col>>} |-> IF s = <<row, col>> THEN b ELSE g[s]]

\* bubbleGrid[row][col] = null for every slot of `cells`
RemoveCells(g, cells) == [s \in DOMAIN g \ cells |-> g[s]]

EvenOffsets == << <<-1, -1>>, <<-1, 0>>, <<0, -1>>, <<0, 1>>, <<1, -1>>, <<1, 0>> >>
OddOffsets == << <<-1, 0>>, <<-1, 1>>, <<0, -1>>, <<0, 1>>, <<1, 0>>, <<1, 1>> >>

\* the bounds test of getAdjacentPositions: the first variant takes the row's
\* parity into account, the second does not
AdjacentInBounds(v, newRow, newCol) ==
    /\ newRow >= 0 /\ newRow < gridRows
    /\ newCol >= 0
    /\ newCol < (IF v = 1 THEN gridCols - (newRow % 2) ELSE gridCols)

\* getAdjacentPositions with the offsets of the even rows on every row
getAdjacentPositionsOneTable(v, row, col) ==
    LET cand == [i \in 1..6 |-> <<row + EvenOffsets[i][1], col + EvenOffsets[i][2]>>]
    IN SelectSeq(cand, LAMBDA p : AdjacentInBounds(v, p[1], p[2]))

\* getAdjacentPositions(row, col): a sequence, in the order of the offset table
getAdjacentPositions(v, row, col) ==
    LET offsets == IF row % 2 = 0 THEN EvenOffsets ELSE OddOffsets
        cand == [i \in 1..6 |-> <<row + offsets[i][1], col + offsets[i][2]>>]
    IN SelectSeq(cand, LAMBDA p : AdjacentInBounds(v, p[1], p[2]))

Range(s) == {s[i] : i \in DOMAIN s}

\* row-major order of slots, the order of the nested for loops over the grid
RowMajorLess(s, t) == s[1] < t[1] \/ (s[1] = t[1] /\ s[2] < t[2])

RECURSIVE RowMajor(_)
\* the slots of a set as a sequence in row-major order
RowMajor(S) ==
    IF S = {} THEN <<>>
    ELSE LET first == CHOOSE s \in S : \A t \in S \ {s} : RowMajorLess(s, t)
         IN <<first>> \o RowMajor(S \ {first})

\* Op applied to the value of x (x is evaluated once, as a local constant)
With(x, Op(_)) == CHOOSE r \in {Op(t) : t \in {x}} : TRUE

-----------------------------------------------------------------------------
(* Match resolver *)

\* let points = matches.length * 100
pointsPerBubble == 100

\* points += floating.length * 50
pointsPerFloater == 50

\* if (matches.length >= 3)
minMatch == 3

RECURSIVE ConnectedLoop(_, _, _, _, _, _)
\* the while loop of findConnectedBubbles over its work queue
ConnectedLoop(v, g, color, queue, visited, matches) ==
    IF queue = <<>> THEN matches
    ELSE LET p == Head(queue)
             rest == Tail(queue)
         IN IF p \in visited THEN ConnectedLoop(v, g, color, rest, visited, matches)
            ELSE IF ~Occupied(g, p[1], p[2]) \/ g[p].color # color
                 THEN ConnectedLoop(v, g, color, rest, visited \cup {p}, matches)
                 ELSE ConnectedLoop(v, g, color,
                        rest \o SelectSeq(getAdjacentPositions(v, p[1], p[2]),
                                          LAMBDA q : q \notin visited \cup {p}),
                        visited \cup {p},
                        Append(matches, [g[p] EXCEPT !.row = p[1], !.col = p[2]]))

\* a search that takes every bubble of the colour, connected or not
findConnectedBubblesByColour(v, g, startRow, startCol, color) ==
    With(RowMajor({s \in DOMAIN g : g[s].color = color}),
         LAMBDA same : [i \in 1..Len(same) |-> g[same[i]]])

\* findConnectedBubbles(startRow, startCol, color): the matches, in visiting order
findConnectedBubbles(v, g, startRow, startCol, color) ==
    ConnectedLoop(v, g, color, << <<startRow, startCol>> >>, {}, <<>>)

RECURSIVE markConnected(_, _, _, _)
RECURSIVE MarkAdjacent(_, _, _, _)
\* markConnected(row, col, connected): the set `connected` after the call
markConnected(v, g, p, connected) ==
    IF p \in connected \/ ~Occupied(g, p[1], p[2]) THEN connected
    ELSE MarkAdjacent(v, g, getAdjacentPositions(v, p[1], p[2]), connected \cup {p})

\* the for loop of markConnected over the adjacent positions
MarkAdjacent(v, g, adjacent, connected) ==
    IF adjacent = <<>> THEN connected
    ELSE MarkAdjacent(v, g, Tail(adjacent), markConnected(v, g, Head(adjacent), connected))

RECURSIVE MarkTopRow(_, _, _, _)
\* the first loop of findFloatingBubbles, over the columns of row 0
MarkTopRow(v, g, col, connected) ==
    IF col >= gridCols THEN connected
    ELSE MarkTopRow(v, g, col + 1,
                    IF Occupied(g, 0, col) THEN markConnected(v, g, <<0, col>>, connected)
                    ELSE connected)

\* a search that reports no bubble as floating
findFloatingBubblesNone(v, g) == {}

\* findFloatingBubbles(): the slots of the bubbles not marked connected
findFloatingBubbles(v, g) ==
    LET connected == MarkTopRow(v, g, 0, {})
    IN {s \in DOMAIN g : s \notin connected}

\* the largest row holding a bubble, 0 for an empty grid (second variant)
MaxRow(g) == IF DOMAIN g = {} THEN 0
             ELSE CHOOSE r \in 0..(gridRows - 1) :
                    /\ \E s \in DOMAIN g : s[1] = r
                    /\ \A s \in DOMAIN g : s[1] <= r

\* a terminal test that does not look at the count
IsTerminalCountRowOnly(v, g, count) ==
    IF v = 1 THEN FALSE ELSE MaxRow(g) >= gridRows - 1

\* the terminal test of countBubblesLeft
IsTerminalCount(v, g, count) ==
    IF v = 1 THEN count = 0
    ELSE count = 0 \/ MaxRow(g) >= gridRows - 1

\* countBubblesLeft() on a session record c: [grid, score, bubblesLeft, gameOver,
\* events], where events is the sequence of onGameStateChange payloads fired
countBubblesLeft(v, c0) ==
    With(c0, LAMBDA c :
      LET count == Cardinality(DOMAIN c.grid)
      IN IF IsTerminalCount(v, c.grid, count)
         THEN [c EXCEPT !.bubblesLeft = count, !.gameOver = TRUE,
                        !.events = Append(@, TRUE)]
         ELSE [c EXCEPT !.bubblesLeft = count])

\* the score a pop of `matched` bubbles with `floating` dropped bubbles adds
\* the points of the tutorial's table: 100 for 3 bubbles, 200 for 4, ...
PopPointsTiered(matched, floating) ==
    (matched - 2) * pointsPerBubble + floating * pointsPerFloater

PopPoints(matched, floating) == matched * pointsPerBubble + floating * pointsPerFloater

\* the removal branch of checkMatches: the matched bubbles are removed, then
\* the floating ones, the score is raised and the bubbles are counted
PopMatches(v, c, matches) ==
    With(RemoveCells(c.grid, {<<matches[i].row, matches[i].col>> : i \in 1..Len(matches)}),
         LAMBDA g1 :
           With(findFloatingBubbles(v, g1),
                LAMBDA floating :
                  countBubblesLeft(v, [c EXCEPT !.grid = RemoveCells(g1, floating),
                      !.score = @ + PopPoints(Len(matches), Cardinality(floating))])))

\* checkMatches removing a group of two already
checkMatchesPairs(v, c, row, col) ==
    IF ~Occupied(c.grid, row, col) THEN c
    ELSE With(findConnectedBubbles(v, c.grid, row, col, c.grid[<<row, col>>].color),
              LAMBDA matches : IF Len(matches) >= 2 THEN PopMatches(v, c, matches)
                               ELSE c)

\* checkMatches(row, col) on a session record
checkMatches(v, c, row, col) ==
    IF ~Occupied(c.grid, row, col) THEN c
    ELSE With(findConnectedBubbles(v, c.grid, row, col, c.grid[<<row, col>>].color),
              LAMBDA matches : IF Len(matches) >= minMatch THEN PopMatches(v, c, matches)
                               ELSE c)

-----------------------------------------------------------------------------
(* Placement of the projectile: operators on a session record c, which holds
   the fields the resolution writes: grid, score, bubblesLeft, gameOver, events
   (the onGameStateChange payloads fired so far by the running handler) and
   placed (the slot the handler put the projectile in, <<>> when none) *)

\* bubbleGrid[row][col] = {x, y, color, radius, row, col}; checkMatches(row, col)
PlaceAndCheck(v, c, row, col, color) ==
    With([c EXCEPT !.grid = PutBubble(@, row, col, MakeBubble(row, col, color)),
                   !.placed = <<row, col, color>>],
         LAMBDA c1 : checkMatches(v, c1, row, col))

\* squared distance between the projectile and the centre of a cell
CellDist2(sb, p) ==
    (sb.x - CellX(p[1], p[2])) * (sb.x - CellX(p[1], p[2]))
    + (sb.y - CellY(p[1], p[2])) * (sb.y - CellY(p[1], p[2]))

\* the candidate test of handleBubbleCollision (first variant)
IsCandidate(g, p) ==
    /\ p[1] >= 0 /\ p[1] < gridRows
    /\ p[2] >= 0 /\ p[2] < gridCols
    /\ ~Occupied(g, p[1], p[2])

RECURSIVE NearestLoop(_, _, _, _, _)
\* the loop of handleBubbleCollision (first variant) over the adjacent positions:
\* best is the target found so far (<<>> for null)
NearestLoop(g, sb, adjacent, best, i) ==
    IF i > Len(adjacent) THEN best
    ELSE IF IsCandidate(g, adjacent[i])
            /\ (best = <<>> \/ CellDist2(sb, adjacent[i]) < CellDist2(sb, best))
         THEN NearestLoop(g, sb, adjacent, adjacent[i], i + 1)
         ELSE NearestLoop(g, sb, adjacent, best, i + 1)

\* a loop that takes the first adjacent position, empty or not
FirstPositionLoop(g, adjacent, i) ==
    IF i > Len(adjacent) THEN <<>> ELSE adjacent[i]

\* the loop of handleBubbleCollision (second variant): the first empty position
RECURSIVE FirstEmptyLoop(_, _, _)
FirstEmptyLoop(g, adjacent, i) ==
    IF i > Len(adjacent) THEN <<>>
    ELSE IF ~Occupied(g, adjacent[i][1], adjacent[i][2]) THEN adjacent[i]
         ELSE FirstEmptyLoop(g, adjacent, i + 1)

\* targetPos of handleBubbleCollision
TargetPos(v, g, sb, hitRow, hitCol) ==
    IF v = 1 THEN NearestLoop(g, sb, getAdjacentPositions(v, hitRow, hitCol), <<>>, 1)
    ELSE FirstEmptyLoop(g, getAdjacentPositions(v, hitRow, hitCol), 1)

\* Math.round((x - bubbleRadius) / (bubbleRadius * 2))
NearestCol(x) == RoundDiv(x - Px(bubbleRadius), Px(bubbleRadius * 2))

\* Math.round((y - bubbleRadius) / (bubbleRadius * 1.7))
NearestRow(y) == RoundDiv(y - Px(bubbleRadius), RowHeight)

\* the pixel centre of a cell, as createLevel computes it
GridToPixel(row, col) == <<CellX(row, col), CellY(row, col)>>

\* the cell the placement code derives from a pixel position: <<row, col>>
PixelToGrid(x, y) == <<NearestRow(y), NearestCol(x)>>

\* Math.max(0, Math.min(gridCols - 1 - (row % 2), col))
AdjustedCol(row, col) == Max(0, Min(gridCols - 1 - (row % 2), col))

RECURSIVE ColumnLoop(_, _, _, _, _)
\* the loop of handleDirectPlacement and of the fallback of handleTopCollision:
\* the first row from r on whose adjusted column is empty gets the bubble
ColumnLoop(v, c, sb, r, col) ==
    IF r >= gridRows THEN c
    ELSE IF ~Occupied(c.grid, r, AdjustedCol(r, col))
         THEN PlaceAndCheck(v, c, r, AdjustedCol(r, col), sb.color)
         ELSE ColumnLoop(v, c, sb, r + 1, col)

\* a direct placement that scans the column from the top row
handleDirectPlacementFromTop(v, c, sb) ==
    ColumnLoop(v, c, sb, 0, NearestCol(sb.x))

\* handleDirectPlacement() (first variant)
handleDirectPlacement(v, c, sb) ==
    ColumnLoop(v, c, sb, Max(0, NearestRow(sb.y)), NearestCol(sb.x))

\* handleBubbleCollision(hitRow, hitCol), up to its call of finishShot
handleBubbleCollision(v, c, sb, hitRow, hitCol) ==
    With(TargetPos(v, c.grid, sb, hitRow, hitCol),
         LAMBDA targetPos :
           IF targetPos # <<>>
           THEN PlaceAndCheck(v, c, targetPos[1], targetPos[2], sb.color)
           ELSE IF v = 1 THEN handleDirectPlacement(v, c, sb) ELSE c)

\* handleTopCollision(), up to its call of finishShot
handleTopCollision(v, c, sb) ==
    LET clampedCol == Max(0, Min(gridCols - 1, NearestCol(sb.x)))
    IN IF ~Occupied(c.grid, 0, clampedCol)
       THEN PlaceAndCheck(v, c, 0, clampedCol, sb.color)
       ELSE IF v = 1 THEN ColumnLoop(v, c, sb, 1, clampedCol) ELSE c

-----------------------------------------------------------------------------
(* Aiming *)

RECURSIVE FlattenSeq(_)
FlattenSeq(ss) == IF ss = <<>> THEN <<>> ELSE Head(ss) \o FlattenSeq(Tail(ss))

\* findPotentialTargets(): the empty positions adjacent to a bubble of the
\* current bubble's colour, in push order (a position may occur more than once)
findPotentialTargets(v, g, color) ==
    With(RowMajor({s \in DOMAIN g : g[s].color = color}),
         LAMBDA same :
           FlattenSeq([i \in 1..Len(same) |->
               SelectSeq(getAdjacentPositions(v, same[i][1], same[i][2]),
                         LAMBDA p : ~Occupied(g, p[1], p[2]))]))

\* squared distance from the shooter to the centre of a cell
ShooterDist2(v, p) ==
    (shooterX - CellX(p[1], p[2])) * (shooterX - CellX(p[1], p[2]))
    + (shooterY(v) - CellY(p[1], p[2])) * (shooterY(v) - CellY(p[1], p[2]))

RECURSIVE ClosestLoop(_, _, _, _)
\* the loop of findBestTarget over the targets
ClosestLoop(v, targets, best, i) ==
    IF i > Len(targets) THEN best
    ELSE IF ShooterDist2(v, targets[i]) < ShooterDist2(v, best)
         THEN ClosestLoop(v, targets, targets[i], i + 1)
         ELSE ClosestLoop(v, targets, best, i + 1)

\* the rows findBestTarget scans for any empty cell: Math.min(8, this.gridRows)
fallbackRows == 8

RECURSIVE FirstFreeCell(_, _, _)
\* the fallback loops of findBestTarget: the first empty valid cell of the top
\* rows in row-major order, <<>> for null
FirstFreeCell(g, row, col) ==
    IF row >= Min(fallbackRows, gridRows) THEN <<>>
    ELSE IF col >= gridCols - (row % 2) THEN FirstFreeCell(g, row + 1, 0)
         ELSE IF ~Occupied(g, row, col) THEN <<row, col>>
              ELSE FirstFreeCell(g, row, col + 1)

\* findBestTarget() (first variant): a slot, or <<>> for null
findBestTarget(v, g, color) ==
    With(findPotentialTargets(v, g, color),
         LAMBDA targets : IF Len(targets) = 0 THEN FirstFreeCell(g, 0, 0)
                          ELSE ClosestLoop(v, targets, targets[1], 1))

\* evaluateTarget(target) (second variant)
evaluateTarget(v, g, color, target) ==
    LET adjacent == getAdjacentPositions(v, target[1], target[2])
        sameColorCount == Cardinality({i \in 1..Len(adjacent) :
                              /\ Occupied(g, adjacent[i][1], adjacent[i][2])
                              /\ g[adjacent[i]].color = color})
    IN sameColorCount * 100 + (IF sameColorCount >= 2 THEN 500 ELSE 0)
                            + (IF sameColorCount >= 3 THEN 1000 ELSE 0)

RECURSIVE BestScoreLoop(_, _, _, _, _, _)
\* the loop of calculateAIPath (second variant) over the targets
BestScoreLoop(v, g, color, targets, best, i) ==
    IF i > Len(targets) THEN best
    ELSE IF best = <<>> \/ evaluateTarget(v, g, color, targets[i]) > evaluateTarget(v, g, color, best)
         THEN BestScoreLoop(v, g, color, targets, targets[i], i + 1)
         ELSE BestScoreLoop(v, g, color, targets, best, i + 1)

\* the path findPath returns when its search gives up: [startNode, goal].  The
\* session gives every target this direct path; the search itself is the
\* subject of SpecPath.
DirectPath(start, goal) == <<start, goal>>

(* AStarPathfinder.  Points are pairs <<x, y>> in tenths of a pixel, nodes are
   records; the parent of a node is its index in closedSet (0 for none): a
   parent is always the node that was closed last.  Scores are distances
   rounded down to a tenth of a pixel. *)
STEP_SIZE == 30
ANGLE_DIVISIONS == 16
maxIterations == 500

\* Math.cos(angle) * STEP_SIZE for angle = i * 2 * PI / ANGLE_DIVISIONS
CosStep(i) ==
    <<300, 277, 212, 115, 0, -115, -212, -277,
      -300, -277, -212, -115, 0, 115, 212, 277>>[(i % ANGLE_DIVISIONS) + 1]

\* Math.sin(angle) * STEP_SIZE: the cosine a quarter turn earlier
SinStep(i) == CosStep(i + 3 * (ANGLE_DIVISIONS \div 4))

Dist2(a, b) == (a[1] - b[1]) * (a[1] - b[1]) + (a[2] - b[2]) * (a[2] - b[2])

\* distance(a, b)
distance(a, b) == ISqrt(Dist2(a, b))

\* calculateHeuristic(node, goal)
calculateHeuristic(p, goal) == distance(p, goal)

NodePoint(n) == <<n.x, n.y>>

\* the i-th candidate of getNeighbors, after the clamps at the walls and the top
NeighborPoint(p, i) ==
    LET newX == p[1] + CosStep(i)
        newY == p[2] + SinStep(i)
    IN <<IF newX <= Px(bubbleRadius) \/ newX >= Px(canvasWidth - bubbleRadius)
         THEN Max(Px(bubbleRadius), Min(Px(canvasWidth - bubbleRadius), newX))
         ELSE newX,
         IF newY <= Px(bubbleRadius) THEN Px(bubbleRadius) ELSE newY>>

\* the obstacle test of getNeighbors: every obstacle has radius bubbleRadius
Collides(q, obstacles) ==
    \E o \in obstacles :
       Dist2(q, o) < Px(bubbleRadius + bubbleRadius + 5) * Px(bubbleRadius + bubbleRadius + 5)

\* getNeighbors(node, obstacles, options): the points of the new nodes
getNeighbors(p, obstacles) ==
    SelectSeq([i \in 1..ANGLE_DIVISIONS |-> NeighborPoint(p, i - 1)],
              LAMBDA q : ~Collides(q, obstacles) /\ q[2] < Px(canvasHeight - 50))

\* the test of isInSet and findInSet
SamePlace(n, q) == Abs(n.x - q[1]) < Px(10) /\ Abs(n.y - q[2]) < Px(10)

\* an isInSet that knows a node only at exactly its own place
isInSetExact(q, set) == \E j \in DOMAIN set : NodePoint(set[j]) = q

\* isInSet(node, set)
isInSet(q, set) == \E j \in DOMAIN set : SamePlace(set[j], q)

\* findInSet(node, set): the index of the first node at the place, 0 for undefined
findInSet(q, set) ==
    IF isInSet(q, set) THEN CHOOSE j \in DOMAIN set :
                                /\ SamePlace(set[j], q)
                                /\ \A k \in 1..(j - 1) : ~SamePlace(set[k], q)
    ELSE 0

\* the node findPath starts from
StartNode(start, goal) ==
    [x |-> start[1], y |-> start[2], gScore |-> 0,
     hScore |-> calculateHeuristic(start, goal),
     fScore |-> calculateHeuristic(start, goal), parent |-> 0]

RECURSIVE LowestLoop(_, _, _)
\* the loop of findPath that finds the first node with the lowest fScore,
\* here among openSet[lo..hi] and computed by halves: a later node replaces
\* an earlier one only with a strictly lower fScore
LowestLoop(openSet, lo, hi) ==
    IF lo >= hi THEN lo
    ELSE LET mid == (lo + hi) \div 2
             left == LowestLoop(openSet, lo, mid)
             right == LowestLoop(openSet, mid + 1, hi)
         IN IF openSet[right].fScore < openSet[left].fScore THEN right ELSE left

\* openSet.splice(i, 1)
Splice(seq, i) == SubSeq(seq, 1, i - 1) \o SubSeq(seq, i + 1, Len(seq))

RECURSIVE NeighborLoop(_, _, _, _, _, _)
\* the loop of findPath over the neighbours of current, which is the last
\* node of closedSet: the open set after it
NeighborLoop(openSet, closedSet, current, goal, neighbors, i) ==
    IF i > Len(neighbors) THEN openSet
    ELSE IF isInSet(neighbors[i], closedSet)
         THEN NeighborLoop(openSet, closedSet, current, goal, neighbors, i + 1)
         ELSE LET q == neighbors[i]
                  tentativeGScore == current.gScore + distance(NodePoint(current), q)
                  existing == findInSet(q, openSet)
              IN IF existing = 0
                 THEN NeighborLoop(
                        Append(openSet,
                               [x |-> q[1], y |-> q[2], gScore |-> tentativeGScore,
                                hScore |-> calculateHeuristic(q, goal),
                                fScore |-> tentativeGScore + calculateHeuristic(q, goal),
                                parent |-> Len(closedSet)]),
                        closedSet, current, goal, neighbors, i + 1)
                 ELSE IF tentativeGScore < openSet[existing].gScore
                 THEN NeighborLoop(
                        [openSet EXCEPT ![existing] =
                            [@ EXCEPT !.gScore = tentativeGScore,
                                      !.fScore = tentativeGScore + openSet[existing].hScore,
                                      !.parent = Len(closedSet)]],
                        closedSet, current, goal, neighbors, i + 1)
                 ELSE NeighborLoop(openSet, closedSet, current, goal, neighbors, i + 1)

\* a reconstructPath that stops at the first parent
reconstructPathOnce(node, closedSet) ==
    IF node.parent = 0 THEN <<NodePoint(node)>>
    ELSE <<NodePoint(closedSet[node.parent]), NodePoint(node)>>

RECURSIVE reconstructPath(_, _)
\* reconstructPath(node): the points from the start node to node
reconstructPath(node, closedSet) ==
    IF node.parent = 0 THEN <<NodePoint(node)>>
    ELSE Append(reconstructPath(closedSet[node.parent], closedSet), NodePoint(node))

\* findPath at its while loop, right after openSet.push(startNode)
SearchStart(start, goal) ==
    [fn |-> "findPath", openSet |-> <<StartNode(start, goal)>>, closedSet |-> <<>>,
     iterations |-> 0, done |-> FALSE, path |-> <<>>]

\* the condition of the while loop of findPath
SearchGoesOn(f) == Len(f.openSet) > 0 /\ f.iterations < maxIterations

\* one iteration of the while loop of findPath
SearchStep(f, goal, obstacles) ==
    LET currentIndex == LowestLoop(f.openSet, 1, Len(f.openSet))
        current == f.openSet[currentIndex]
        closedSet == Append(f.closedSet, current)
    IN IF Dist2(NodePoint(current), goal)
            <= Px(bubbleRadius * 2) * Px(bubbleRadius * 2)
       THEN [f EXCEPT !.iterations = @ + 1, !.openSet = Splice(@, currentIndex),
                      !.closedSet = closedSet, !.done = TRUE,
                      !.path = reconstructPath(current, closedSet)]
       ELSE [f EXCEPT !.iterations = @ + 1, !.closedSet = closedSet,
                      !.openSet = NeighborLoop(Splice(@, currentIndex), closedSet, current,
                                               goal,
                                               getNeighbors(NodePoint(current), obstacles),
                                               1)]

\* the return after the loop of findPath: the direct path
SearchGivesUp(f, start, goal) ==
    [f EXCEPT !.done = TRUE, !.path = DirectPath(start, goal)]

\* the centre of a slot as a point
CellPoint(p) == <<CellX(p[1], p[2]), CellY(p[1], p[2])>>

\* calculateAIPath(): the new currentPath, a sequence of points
calculateAIPath(v, g, color) ==
    With(IF v = 1 THEN findBestTarget(v, g, color)
         ELSE With(findPotentialTargets(v, g, color),
                   LAMBDA targets : BestScoreLoop(v, g, color, targets, <<>>, 1)),
         LAMBDA target :
           IF target = <<>> THEN <<>>
           ELSE IF v = 1 THEN << <<shooterX, shooterY(v)>>, CellPoint(target) >>
                ELSE DirectPath(<<shooterX, shooterY(v)>>, CellPoint(target)))

\* the velocity shoot() and handleClick() give the projectile: (dx / distance) * speed.
\* With dx = dy = 0 the distance is 0 and both quotients are 0 / 0 = NaN: nan
\* says so, and vx and vy then stand for NaN.
Velocity(v, dx, dy) ==
    LET length == ISqrt(dx * dx + dy * dy)
    IN IF length = 0 THEN [vx |-> 0, vy |-> 0, nan |-> TRUE]
       ELSE [vx |-> RoundDiv(dx * speed(v), length),
             vy |-> RoundDiv(dy * speed(v), length), nan |-> FALSE]

\* the object shoot() and handleClick() assign to shootingBubble
NewShot(v, targetX, targetY, color) ==
    LET vel == Velocity(v, targetX - shooterX, targetY - shooterY(v))
    IN [x |-> shooterX, y |-> shooterY(v), vx |-> vel.vx, vy |-> vel.vy,
        nan |-> vel.nan, color |-> color, active |-> TRUE]

\* shootingBubble = null
NoShot == [active |-> FALSE]

\* the target shoot() aims at
ShootTarget(v, ai, path) ==
    IF ai /\ Len(path) > 1 THEN path[2]
    ELSE IF v = 1 THEN <<shooterX, shooterY(v) - Px(100)>>
         ELSE <<Px(canvasWidth) \div 2, Px(canvasHeight) \div 4>>

-----------------------------------------------------------------------------
(* Level creation *)

\* levelRows of createLevel
levelRows(v, level) ==
    IF v = 1 THEN Min(4 + level \div 2, 8) ELSE Min(6 + level, gridRows - 2)

\* The random draws of createLevel are an input of the model: a draw maps the
\* cells whose Math.random() test succeeded to the colour drawn for them.  The
\* draws of the model fill a zigzag stem of depth d in the column left of the
\* shooter (cells (r, StemCol) for r < d), coloured two rows at a time
\* starting with colour k.
StemCol == gridCols \div 2 - 1

StemDraw(d, k) ==
    [s \in {<<r, StemCol>> : r \in 0..(d - 1)} |-> colors[((s[1] \div 2 + k) % NumColors) + 1]]

\* the draws of a level: nothing drawn, a stem of depth 2, a stem of depth levelRows
LevelDraws(v, level) ==
    {StemDraw(d, 0) : d \in {0, 2, levelRows(v, level)}}

\* a draw extended by the cells of a second one
DrawPlus(draw, more) ==
    [s \in DOMAIN draw \cup DOMAIN more |-> IF s \in DOMAIN more THEN more[s] ELSE draw[s]]

\* a bubble beside the lowest cell of a stem of depth d
SideDraw(d, color) == [s \in {<<d - 1, StemCol + 1>>} |-> color]

\* a chain of two bubbles under the ceiling, three columns right of the stem
ChainDraw(color) == [s \in {<<0, StemCol + 3>>, <<1, StemCol + 3>>} |-> color]

\* the optional parts of a draw of SpecPlay
NoDraw == StemDraw(0, 0)

\* the first-level draws of SpecPlay: a stem of depth levelRows in either
\* colouring, with or without the side bubble and the chain
PlayDraws(v) ==
    {DrawPlus(DrawPlus(StemDraw(levelRows(v, 1), k), side), chain) :
        k \in 0..(NumColors - 1),
        side \in {NoDraw} \cup {SideDraw(levelRows(v, 1), c) : c \in Palette},
        chain \in {NoDraw} \cup {ChainDraw(c) : c \in Palette}}

\* the first-level draw of SpecTower: the stem of depth levelRows
TowerDraws(v) == {StemDraw(levelRows(v, 1), 0)}

\* four bubbles of one colour at the right wall: the last two cells of row 0
\* and the two cells of row 1 under them
WallDraw(color) ==
    [s \in {<<0, gridCols - 2>>, <<0, gridCols - 1>>,
            <<1, gridCols - 3>>, <<1, gridCols - 2>>} |-> color]

\* the first-level draws of SpecWall
WallDraws(v) == {WallDraw(c) : c \in Palette}

\* the draw of SpecDeep at a level: the stem of depth levelRows
DeepDraws(v, level) == {StemDraw(levelRows(v, level), 0)}

DeepPalette == {colors[i] : i \in 1..DeepColors}

\* createLevel() on a session record, for one draw
createLevel(v, c, level, draw) ==
    With({s \in DOMAIN draw : s[1] < levelRows(v, level) /\ s[2] < gridCols - (s[1] % 2)},
         LAMBDA cells :
           countBubblesLeft(v, [c EXCEPT !.grid =
               [s \in DOMAIN c.grid \cup cells |->
                   IF s \in cells THEN MakeBubble(s[1], s[2], draw[s]) ELSE c.grid[s]]]))

-----------------------------------------------------------------------------
(* Flight of the projectile *)

\* the position update and the wall bounce of updateShootingBubble
MoveShot(sb) ==
    LET x1 == sb.x + sb.vx
        y1 == sb.y + sb.vy
    IN IF x1 <= Px(bubbleRadius) \/ x1 >= Px(canvasWidth - bubbleRadius)
       THEN [sb EXCEPT !.x = Max(Px(bubbleRadius), Min(Px(canvasWidth - bubbleRadius), x1)),
                       !.y = y1, !.vx = -sb.vx]
       ELSE [sb EXCEPT !.x = x1, !.y = y1]

\* the collision scan of updateShootingBubble: the first slot, in row-major
\* order, whose bubble is closer than 2 * bubbleRadius; <<>> when there is none
HitSlot(g, sb) ==
    LET hits == {s \in DOMAIN g :
                   (sb.x - g[s].x) * (sb.x - g[s].x) + (sb.y - g[s].y) * (sb.y - g[s].y)
                     < Px(bubbleRadius * 2) * Px(bubbleRadius * 2)}
    IN IF hits = {} THEN <<>>
       ELSE CHOOSE s \in hits : \A t \in hits \ {s} : RowMajorLess(s, t)

\* the checks of updateShootingBubble on the moved projectile sb; hit is the
\* grid slot it collides with, if any
UpdateMoved(v, c, sb, hit) ==
    IF v = 1
    THEN IF sb.y <= Px(bubbleRadius)
         THEN [done |-> TRUE, c |-> handleTopCollision(v, c, sb), sb |-> sb]
         ELSE IF sb.y > Px(canvasHeight - 30)
              THEN [done |-> TRUE, c |-> c, sb |-> sb]
              ELSE IF hit # <<>>
                   THEN [done |-> TRUE, c |-> handleBubbleCollision(v, c, sb, hit[1], hit[2]), sb |-> sb]
                   ELSE [done |-> FALSE, c |-> c, sb |-> sb]
    ELSE IF hit # <<>>
         THEN [done |-> TRUE, c |-> handleBubbleCollision(v, c, sb, hit[1], hit[2]), sb |-> sb]
         ELSE IF sb.y <= Px(bubbleRadius)
              THEN [done |-> TRUE, c |-> handleTopCollision(v, c, sb), sb |-> sb]
              ELSE [done |-> FALSE, c |-> c, sb |-> sb]

\* updateShootingBubble() for an active projectile, up to the call of finishShot:
\* done says whether the shot was resolved, c is the session record afterwards
\* and sb the projectile after the move
updateShootingBubble(v, c, sb0) ==
    IF sb0.nan
    THEN \* x and y become NaN and every comparison of the function is false
         [done |-> FALSE, c |-> c, sb |-> sb0]
    ELSE With(MoveShot(sb0),
              LAMBDA sb : With(HitSlot(c.grid, sb), LAMBDA hit : UpdateMoved(v, c, sb, hit)))

\* Math.round((score / Math.max(1, shots * 100)) * 100)
Accuracy(score, shots) == RoundDiv(score * 100, Max(1, shots * 100))

-----------------------------------------------------------------------------
(* The engine as a state machine *)

VARIABLES
    variant,        \* which of the two classes of the file runs
    bubbleGrid,     \* this.bubbleGrid
    currentBubble,  \* this.currentBubble.color
    nextBubble,     \* this.nextBubble.color
    shootingBubble, \* this.shootingBubble
    aiMode,         \* this.aiMode
    isPaused,       \* this.isPaused
    gameOver,       \* this.gameOver
    stats,          \* this.stats (astarCalculations left out)
    currentPath,    \* this.currentPath
    timers,         \* number of pending setTimeout(() => this.shoot(), ...) callbacks
    op,             \* the handler that ran last
    placed,         \* <<row, col, color>> of the bubble that handler placed, <<>> when none
    events,         \* the onGameStateChange payloads that handler fired
    statsEvents,    \* the number of onStatsUpdate calls that handler made
    animationFrame, \* this.animationFrame: whether a frame of gameLoop is requested
    arg,            \* the argument of a call of one of the engine's functions
    res             \* what that call returned, <<>> before the call

\* the variables of the function calls
fnVars == <<arg, res>>

vars == <<variant, bubbleGrid, currentBubble, nextBubble, shootingBubble, aiMode,
          isPaused, gameOver, stats, currentPath, timers, op, placed, events,
          statsEvents, animationFrame, arg, res>>

\* the pointer positions (canvas pixels) the model clicks at: straight above
\* the shooter and, in SpecPlay, up and to either side
Clicks == {<<400, 300>>}

PlayClicks == {<<400, 300>>, <<460, 490>>, <<340, 490>>}

\* in SpecTurn: the clicks of SpecPlay, a click below the shooter and a click
\* on the shooter itself
TurnClicks(v) ==
    PlayClicks \cup {<<400, 590>>, <<shooterX \div 10, shooterY(v) \div 10>>}

\* in SpecAim: a click up to the right of the shooter, whose shot reaches the
\* ceiling, and a click at the shooter's own height
AimClicks(v) == {<<460, 490>>, <<780, shooterY(v) \div 10>>}

\* in SpecCeiling: clicks whose shots bounce off the right wall and reach the
\* ceiling, next to the stem and far from it
CeilingClicks == {<<418, 547>>, <<460, 490>>}

\* in SpecWall: at the right wall, under the bubbles of the wall draw
WallClicks == {<<780, 90>>}

\* the session record of the current state
Session ==
    [grid |-> bubbleGrid, score |-> stats.score, bubblesLeft |-> stats.bubblesLeft,
     gameOver |-> gameOver, events |-> <<>>, placed |-> <<>>]

\* the stats object initializeGame starts from (constructor and resetGame)
FreshStats ==
    [score |-> 0, level |-> 1, bubblesLeft |-> 0, shots |-> 0, pathLength |-> 0,
     accuracy |-> 100]

\* initializeGame() up to the choice of the two bubbles: the session record
\* of createLevel on a new grid, for a draw of the level
FreshLevel(v, draw) ==
    createLevel(v, [grid |-> EmptyGrid, score |-> 0, bubblesLeft |-> 0,
                    gameOver |-> FALSE, events |-> <<>>, placed |-> <<>>],
                1, draw)

\* the outcomes of initializeGame(), by variant, draw and current bubble: the
\* session record and the path of calculateAIPath
FreshGames ==
    [v \in Variants |->
      [draw \in LevelDraws(v, 1) \cup PlayDraws(v) \cup TowerDraws(v)
                      \cup WallDraws(v) |-> [cur \in Palette |->
        With(FreshLevel(v, draw),
             LAMBDA c : [c |-> c, path |-> calculateAIPath(v, c.grid, cur)])]]]

\* a reset that leaves the projectile as it is
InitializeGameInFlight(v, draw, cur, nxt) ==
    \E f \in {FreshGames[v][draw][cur]} :
       /\ bubbleGrid' = f.c.grid
       /\ currentBubble' = cur
       /\ nextBubble' = nxt
       /\ shootingBubble' = shootingBubble
       /\ gameOver' = f.c.gameOver
       /\ stats' = [FreshStats EXCEPT !.bubblesLeft = f.c.bubblesLeft,
                                      !.pathLength = Len(f.path)]
       /\ currentPath' = f.path
       /\ placed' = <<>>
       /\ events' = f.c.events
       /\ statsEvents' = 2

\* initializeGame(): a new grid, createLevel, the two bubbles, calculateAIPath
InitializeGame(v, draw, cur, nxt) ==
    \E f \in {FreshGames[v][draw][cur]} :
       /\ bubbleGrid' = f.c.grid
       /\ currentBubble' = cur
       /\ nextBubble' = nxt
       /\ shootingBubble' = NoShot
       /\ gameOver' = f.c.gameOver
       /\ stats' = [FreshStats EXCEPT !.bubblesLeft = f.c.bubblesLeft,
                                      !.pathLength = Len(f.path)]
       /\ currentPath' = f.path
       /\ placed' = <<>>
       /\ events' = f.c.events
       /\ statsEvents' = 2

\* the engine after the constructor, for the draws of a specification
Built(draws(_)) ==
    /\ variant \in Variants
    /\ \E draw \in draws(variant), cur \in Palette, nxt \in Palette :
         \E f \in {FreshGames[variant][draw][cur]} :
            /\ bubbleGrid = f.c.grid
            /\ currentBubble = cur
            /\ nextBubble = nxt
            /\ gameOver = f.c.gameOver
            /\ stats = [FreshStats EXCEPT !.bubblesLeft = f.c.bubblesLeft,
                                          !.pathLength = Len(f.path)]
            /\ currentPath = f.path
            /\ events = f.c.events
    /\ shootingBubble = NoShot
    /\ aiMode = FALSE
    /\ isPaused = FALSE
    /\ timers = 0
    /\ op = "constructor"
    /\ placed = <<>>
    /\ statsEvents = 2
    /\ animationFrame = TRUE

\* the state after the constructor: no function call is being looked at
Constructed(draws(_)) ==
    /\ Built(draws)
    /\ arg = <<>>
    /\ res = <<>>

Init == Constructed(LAMBDA v : LevelDraws(v, 1))

InitPlay == Constructed(PlayDraws)

InitTower == Constructed(TowerDraws)

InitWall == Constructed(WallDraws)

\* a guard of shoot() that does not look at the projectile
ShootRejectedInFlight(v) ==
    IF v = 1 THEN isPaused \/ gameOver ELSE isPaused

\* the guard of shoot(): the call returns at once when it holds
ShootRejected(v) ==
    IF v = 1 THEN shootingBubble.active \/ isPaused \/ gameOver
    ELSE shootingBubble.active \/ isPaused

\* the body of shoot()
ShootBody ==
    IF ShootRejected(variant)
    THEN UNCHANGED <<shootingBubble, stats>>
    ELSE LET target == ShootTarget(variant, aiMode, currentPath)
         IN /\ stats' = [stats EXCEPT !.shots = @ + 1]
            /\ shootingBubble' = NewShot(variant, target[1], target[2], currentBubble)

\* shoot(), called by the page's button
Shoot ==
    /\ ShootBody
    /\ op' = "shoot"
    /\ placed' = <<>>
    /\ events' = <<>>
    /\ UNCHANGED <<variant, bubbleGrid, currentBubble, nextBubble, aiMode, isPaused,
                   gameOver, currentPath, timers>>
    /\ statsEvents' = 0
    /\ UNCHANGED <<animationFrame, fnVars>>

\* a pending auto-shoot timer fires: () => this.shoot()
TimerFire ==
    /\ timers > 0
    /\ timers' = timers - 1
    /\ ShootBody
    /\ op' = "timer"
    /\ placed' = <<>>
    /\ events' = <<>>
    /\ UNCHANGED <<variant, bubbleGrid, currentBubble, nextBubble, aiMode, isPaused,
                   gameOver, currentPath>>
    /\ statsEvents' = 0
    /\ UNCHANGED <<animationFrame, fnVars>>

\* the guard of handleClick(): the call does nothing when it holds
ClickRejected(v) ==
    IF v = 1 THEN shootingBubble.active \/ isPaused \/ gameOver
    ELSE aiMode \/ shootingBubble.active

\* handleClick(x, y)
HandleClick(x, y) ==
    /\ IF ClickRejected(variant)
       THEN UNCHANGED <<shootingBubble, stats>>
       ELSE IF ~aiMode
            THEN /\ stats' = [stats EXCEPT !.shots = @ + 1]
                 /\ shootingBubble' = NewShot(variant, Px(x), Px(y), currentBubble)
            ELSE ShootBody
    /\ op' = "handleClick"
    /\ placed' = <<>>
    /\ events' = <<>>
    /\ UNCHANGED <<variant, bubbleGrid, currentBubble, nextBubble, aiMode, isPaused,
                   gameOver, currentPath, timers>>
    /\ statsEvents' = 0
    /\ UNCHANGED <<animationFrame, fnVars>>

\* onStatsUpdate calls of updateShootingBubble for placed bubbles only
StatsUpdatesPlaced(r) == IF r.done /\ r.c.placed # <<>> THEN 2 ELSE 0

\* the number of onStatsUpdate calls updateShootingBubble makes: when the shot
\* is resolved, finishShot calls updateStats and then calculateAIPath, which
\* ends with updateStats
StatsUpdates(r) == IF r.done THEN 2 ELSE 0

\* whether the game loop schedules an auto-shoot timer after its update
SchedulesTimer(v, ai, active, over) ==
    IF v = 1 THEN ai /\ ~active /\ ~over ELSE ai /\ ~active

\* one run of gameLoop (an animation frame), in a model that follows at most
\* `limit` pending timers and in which createRandomBubble draws from `palette`
FrameOf(limit, palette) ==
    /\ animationFrame
    /\ op' = "tick"
    /\ IF isPaused
       THEN /\ placed' = <<>>
            /\ events' = <<>>
            /\ statsEvents' = 0
            /\ UNCHANGED <<bubbleGrid, currentBubble, nextBubble, shootingBubble, gameOver,
                           stats, currentPath, timers>>
       ELSE IF ~shootingBubble.active
            THEN /\ placed' = <<>>
                 /\ events' = <<>>
                 /\ statsEvents' = 0
                 /\ IF SchedulesTimer(variant, aiMode, FALSE, gameOver)
                    THEN timers < limit /\ timers' = timers + 1
                    ELSE timers' = timers
                 /\ UNCHANGED <<bubbleGrid, currentBubble, nextBubble, shootingBubble,
                                gameOver, stats, currentPath>>
            ELSE \E r \in {updateShootingBubble(variant, Session, shootingBubble)} :
                    IF r.done
                    THEN \E nxt \in palette :
                           \* finishShot()
                           \E path \in {calculateAIPath(variant, r.c.grid, nextBubble)} :
                              /\ shootingBubble' = NoShot
                              /\ currentBubble' = nextBubble
                              /\ nextBubble' = nxt
                              /\ bubbleGrid' = r.c.grid
                              /\ gameOver' = r.c.gameOver
                              /\ stats' = [stats EXCEPT !.score = r.c.score,
                                              !.bubblesLeft = r.c.bubblesLeft,
                                              !.accuracy = Accuracy(r.c.score, stats.shots),
                                              !.pathLength = Len(path)]
                              /\ currentPath' = path
                              /\ placed' = r.c.placed
                              /\ events' = r.c.events
                              /\ statsEvents' = StatsUpdates(r)
                              /\ IF SchedulesTimer(variant, aiMode, FALSE, r.c.gameOver)
                                 THEN timers < limit /\ timers' = timers + 1
                                 ELSE timers' = timers
                    ELSE /\ shootingBubble' = r.sb
                         /\ placed' = <<>>
                         /\ events' = <<>>
                         /\ statsEvents' = 0
                         /\ UNCHANGED <<bubbleGrid, currentBubble, nextBubble, gameOver,
                                        stats, currentPath, timers>>
    /\ UNCHANGED <<variant, aiMode, isPaused>>
    /\ UNCHANGED <<animationFrame, fnVars>>

\* one run of gameLoop with the colours of Palette
Frame(limit) == FrameOf(limit, Palette)

\* one run of gameLoop (an animation frame)
Tick == Frame(MaxTimers)

\* toggleAI(enabled)
ToggleAI(enabled) ==
    /\ aiMode' = enabled
    /\ op' = "toggleAI"
    /\ placed' = <<>>
    /\ events' = <<>>
    /\ UNCHANGED <<variant, bubbleGrid, currentBubble, nextBubble, shootingBubble,
                   isPaused, gameOver, stats, currentPath, timers>>
    /\ statsEvents' = 0
    /\ UNCHANGED <<animationFrame, fnVars>>

\* togglePause(paused)
TogglePause(paused) ==
    /\ isPaused' = paused
    /\ op' = "togglePause"
    /\ placed' = <<>>
    /\ events' = <<>>
    /\ UNCHANGED <<variant, bubbleGrid, currentBubble, nextBubble, shootingBubble,
                   aiMode, gameOver, stats, currentPath, timers>>
    /\ statsEvents' = 0
    /\ UNCHANGED <<animationFrame, fnVars>>

\* resetGame()
ResetGame ==
    /\ \E draw \in LevelDraws(variant, 1), cur \in Palette, nxt \in Palette :
           InitializeGame(variant, draw, cur, nxt)
    /\ op' = "resetGame"
    /\ UNCHANGED <<variant, aiMode, isPaused, timers>>
    /\ UNCHANGED <<animationFrame, fnVars>>

\* nextLevel(), for one draw of createLevel
AdvanceLevel(draw) ==
    /\   \E c \in {createLevel(variant, [Session EXCEPT !.gameOver = FALSE],
                                stats.level + 1, draw)} :
         \E path \in {calculateAIPath(variant, c.grid, currentBubble)} :
            /\ bubbleGrid' = c.grid
            /\ gameOver' = c.gameOver
            /\ stats' = [stats EXCEPT !.level = @ + 1, !.bubblesLeft = c.bubblesLeft,
                                      !.pathLength = Len(path)]
            /\ currentPath' = path
            /\ events' = Append(c.events, FALSE)
    /\ shootingBubble' = NoShot
    /\ op' = "nextLevel"
    /\ placed' = <<>>
    /\ UNCHANGED <<variant, currentBubble, nextBubble, aiMode, isPaused, timers>>
    /\ statsEvents' = 1
    /\ UNCHANGED <<animationFrame, fnVars>>

\* nextLevel()
NextLevel == \E draw \in LevelDraws(variant, stats.level + 1) : AdvanceLevel(draw)

\* destroy(): cancelAnimationFrame(this.animationFrame)
Destroy ==
    /\ animationFrame' = FALSE
    /\ op' = "destroy"
    /\ placed' = <<>>
    /\ events' = <<>>
    /\ statsEvents' = 0
    /\ UNCHANGED <<variant, bubbleGrid, currentBubble, nextBubble, shootingBubble,
                   aiMode, isPaused, gameOver, stats, currentPath, timers, fnVars>>

\* the calls the model makes: shoot(), handleClick() and the timer callbacks
\* while fewer than `limit` shots were fired or a projectile is in flight,
\* nextLevel() below level `limit`
MayFire(limit) == stats.shots < limit \/ shootingBubble.active
MayLevel(limit) == stats.level < limit

Next ==
    \/ MayFire(MaxShots) /\ Shoot
    \/ MayFire(MaxShots) /\ TimerFire
    \/ MayFire(MaxShots) /\ \E p \in Clicks : HandleClick(p[1], p[2])
    \/ Tick
    \/ \E b \in BOOLEAN : ToggleAI(b)
    \/ \E b \in BOOLEAN : TogglePause(b)
    \/ ResetGame
    \/ MayLevel(MaxLevel) /\ NextLevel

Spec == Init /\ [][Next]_vars

\* manual play on the richer first levels: clicks and frames only
NextPlay ==
    \/ MayFire(PlayShots) /\ \E p \in PlayClicks : HandleClick(p[1], p[2])
    \/ Tick

SpecPlay == InitPlay /\ [][NextPlay]_vars

\* a long manual game that shoots straight up at the stem
NextTower ==
    \/ MayFire(TowerShots) /\ \E p \in Clicks : HandleClick(p[1], p[2])
    \/ Tick

SpecTower == InitTower /\ [][NextTower]_vars

\* one manual shot at the bubbles of the right wall
NextWall ==
    \/ MayFire(MaxShots) /\ \E p \in WallClicks : HandleClick(p[1], p[2])
    \/ Tick

SpecWall == InitWall /\ [][NextWall]_vars

\* the projectile, if any, has not left the canvas at the bottom: the frames of
\* SpecTurn follow it no further
InField == shootingBubble.active => shootingBubble.y <= Px(canvasHeight)

\* one manual shot in any direction at the stem
NextTurn ==
    \/ MayFire(MaxShots) /\ \E p \in TurnClicks(variant) : HandleClick(p[1], p[2])
    \/ InField /\ Tick

SpecTurn == InitTower /\ [][NextTurn]_vars

\* one manual shot, up to the ceiling or level, in a session that is never paused and
\* whose animation frames keep coming: requestAnimationFrame runs gameLoop
\* again after every frame
NextAim ==
    \/ MayFire(MaxShots) /\ \E p \in AimClicks(variant) : HandleClick(p[1], p[2])
    \/ Tick

SpecAim == InitTower /\ [][NextAim]_vars /\ WF_vars(Tick)

\* one manual shot that reaches the ceiling
NextCeiling ==
    \/ MayFire(MaxShots) /\ \E p \in CeilingClicks : HandleClick(p[1], p[2])
    \/ Tick

SpecCeiling == InitTower /\ [][NextCeiling]_vars

\* a game that advances to level DeepLevel, where the stem is deepest, and then
\* shoots straight up at it, with projectiles of DeepColors colours
NextDeep ==
    \/ MayLevel(DeepLevel)
         /\ \E draw \in DeepDraws(variant, stats.level + 1) : AdvanceLevel(draw)
    \/ stats.level = DeepLevel /\ MayFire(TowerShots)
         /\ \E p \in Clicks : HandleClick(p[1], p[2])
    \/ FrameOf(MaxTimers, DeepPalette)

SpecDeep == InitTower /\ [][NextDeep]_vars

\* AI mode: the frames schedule the shots, up to AutoTimers pending timers,
\* and the page may destroy the engine
AutoFrame == Frame(AutoTimers)

NextAuto ==
    \/ MayFire(MaxShots) /\ TimerFire
    \/ AutoFrame
    \/ \E b \in BOOLEAN : ToggleAI(b)
    \/ Destroy

SpecAuto == InitTower /\ [][NextAuto]_vars

\* AI mode over several shots: the timers dispatch one shot after the other
NextRelay ==
    \/ MayFire(PlayShots) /\ TimerFire
    \/ AutoFrame
    \/ \E b \in BOOLEAN : ToggleAI(b)

SpecRelay == InitTower /\ [][NextRelay]_vars

\* the grid functions, applied to a valid cell of a constructed engine
InitGrid ==
    /\ Built(TowerDraws)
    /\ arg \in ValidCells
    /\ res = <<>>

\* the unchanged engine during a function call
gameVars == <<variant, bubbleGrid, currentBubble, nextBubble, shootingBubble, aiMode,
              isPaused, gameOver, stats, currentPath, timers, op, placed, events,
              statsEvents, animationFrame>>

\* the cell's pixel centre, converted back as the placement code converts
RoundTrip ==
    /\ res' = [fn |-> "roundTrip",
               out |-> LET xy == GridToPixel(arg[1], arg[2]) IN PixelToGrid(xy[1], xy[2])]
    /\ UNCHANGED <<gameVars, arg>>

\* getAdjacentPositions(row, col) on the cell
Adjacent ==
    /\ res' = [fn |-> "getAdjacentPositions",
               out |-> getAdjacentPositions(variant, arg[1], arg[2])]
    /\ UNCHANGED <<gameVars, arg>>

NextGrid ==
    \/ RoundTrip
    \/ Adjacent

SpecGrid == InitGrid /\ [][NextGrid]_vars

\* the calls of findPath: from the shooter of the second variant to a goal in
\* the open, to a goal two thirds of a bubble above the shooter and to a goal
\* in the far corner, on an empty field, with a bubble on the first goal or
\* with a bubble right above the shooter, which blocks every neighbour of the
\* start
PathGoals == {<<Px(400), Px(300)>>, <<Px(400), Px(530)>>, <<Px(60), Px(54)>>}
PathObstacles == {{}, {<<Px(400), Px(300)>>}, {<<Px(400), Px(530)>>}}
PathCalls ==
    [start : {<<shooterX, shooterY(2)>>}, goal : PathGoals, obstacles : PathObstacles]

\* an engine of the second variant calls findPath
InitPath ==
    /\ Built(TowerDraws)
    /\ variant = 2
    /\ currentBubble = colors[1]
    /\ nextBubble = colors[1]
    /\ arg \in PathCalls
    /\ res = <<>>

\* findPath(start, goal, obstacles, options) up to its while loop
FindPathCall ==
    /\ res = <<>>
    /\ res' = SearchStart(arg.start, arg.goal)
    /\ UNCHANGED <<gameVars, arg>>

\* one iteration of the while loop
FindPathIterate ==
    /\ res # <<>>
    /\ ~res.done
    /\ SearchGoesOn(res)
    /\ res' = SearchStep(res, arg.goal, arg.obstacles)
    /\ UNCHANGED <<gameVars, arg>>

\* the loop ends without a path
FindPathGiveUp ==
    /\ res # <<>>
    /\ ~res.done
    /\ ~SearchGoesOn(res)
    /\ res' = SearchGivesUp(res, arg.start, arg.goal)
    /\ UNCHANGED <<gameVars, arg>>

NextPath ==
    \/ FindPathCall
    \/ FindPathIterate
    \/ FindPathGiveUp

SpecPath == InitPath /\ [][NextPath]_vars

-----------------------------------------------------------------------------
(* Properties *)

\* the handlers that may fire a shot
FireOps == {"shoot", "handleClick", "timer"}

GridEmpty == DOMAIN bubbleGrid = {}

\* C1: a shoot(), handleClick() or timer callback that runs while a projectile
\* is active leaves the projectile, the shots counter and the grid as they are
C1_ActiveShotKept ==
    [][(shootingBubble.active /\ op' \in FireOps)
          => /\ shootingBubble' = shootingBubble
             /\ stats'.shots = stats.shots
             /\ bubbleGrid' = bubbleGrid]_vars

\* shoot() has been called while the projectile was on its way
C1_Witness ==
    /\ op = "shoot"
    /\ shootingBubble.active
    /\ shootingBubble.y < shooterY(variant)

\* C2: with the gameOver flag set, shoot(), handleClick() and the timer
\* callbacks create no projectile and leave grid, score and shots unchanged
C2_TerminalNoOp ==
    [][(gameOver /\ op' \in FireOps)
          => /\ shootingBubble' = shootingBubble
             /\ bubbleGrid' = bubbleGrid
             /\ stats'.score = stats.score
             /\ stats'.shots = stats.shots]_vars

\* C3: while paused, shoot(), handleClick() and the frames create no
\* projectile, leave the shots counter and do not move the projectile
C3_PausedIgnored ==
    [][(isPaused /\ op' \in {"shoot", "handleClick", "tick"})
          => /\ shootingBubble' = shootingBubble
             /\ stats'.shots = stats.shots]_vars

\* C4: a resolution that leaves the projectile in the last grid row sets gameOver
C4_BottomRowGameOver ==
    (/\ placed # <<>>
     /\ placed[1] = gridRows - 1
     /\ Occupied(bubbleGrid, placed[1], placed[2])) => gameOver

\* C5: an empty grid goes with the gameOver flag, and the handler that left the
\* grid empty fired onGameStateChange({gameOver: true})
C5_EmptyGridTerminal ==
    GridEmpty => /\ gameOver
                 /\ (op \in {"constructor", "resetGame", "nextLevel"} \/ placed # <<>>)
                      => TRUE \in Range(events)

\* a frame resolved a shot and left the grid empty
C5_Witness ==
    /\ op = "tick"
    /\ placed # <<>>
    /\ GridEmpty
    /\ gameOver
    /\ TRUE \in Range(events)

\* two slots whose bubbles touch: hex adjacency
Touching(s, t) ==
    /\ s # t
    /\ (CellX(s[1], s[2]) - CellX(t[1], t[2])) * (CellX(s[1], s[2]) - CellX(t[1], t[2]))
       + (CellY(s[1], s[2]) - CellY(t[1], t[2])) * (CellY(s[1], s[2]) - CellY(t[1], t[2]))
         <= Px(2 * bubbleRadius) * Px(2 * bubbleRadius)

RECURSIVE Closure(_, _)
\* the slots of U reached from S through touching slots of U
Closure(S, U) ==
    LET more == {t \in U \ S : \E s \in S : Touching(s, t)}
    IN IF more = {} THEN S ELSE Closure(S \cup more, U)

\* the same-coloured connected component of slot s in grid g
Component(g, s) == Closure({s}, {t \in DOMAIN g : g[t].color = g[s].color})

\* the slots of g connected to an occupied cell of row 0
Anchored(g) == Closure({s \in DOMAIN g : s[1] = 0}, DOMAIN g)

\* in a step that resolves a shot: the slot of the placed bubble, the grid
\* with that bubble in it and the component it completes
PlacedSlot == <<placed'[1], placed'[2]>>
Landed == PutBubble(bubbleGrid, placed'[1], placed'[2],
                    MakeBubble(placed'[1], placed'[2], placed'[3]))
Matched == Component(Landed, PlacedSlot)

\* the step resolves a shot and the placed bubble completes a match
Pops == placed' # <<>> /\ Cardinality(Matched) >= minMatch

\* the last step resolved a shot and popped the placed bubble
Popped == placed # <<>> /\ ~Occupied(bubbleGrid, placed[1], placed[2])

\* C6: a resolution whose placed bubble completes a same-coloured component of
\* at least 3 empties every cell of the component and leaves every other
\* bubble that stays attached to the ceiling, same-coloured or not, as it was
C6_ComponentRemoved ==
    [][Pops => /\ \A s \in Matched : ~Occupied(bubbleGrid', s[1], s[2])
               /\ \A s \in Anchored(RemoveCells(Landed, Matched)) :
                     /\ Occupied(bubbleGrid', s[1], s[2])
                     /\ bubbleGrid'[s] = Landed[s]]_vars

\* exactly three bubbles were popped and a bubble of their colour is still
\* on the grid, in the chain under the ceiling
C6_Witness ==
    /\ Popped
    /\ stats.score = minMatch * pointsPerBubble
    /\ \E s \in DOMAIN bubbleGrid : s[2] = StemCol + 3 /\ bubbleGrid[s].color = placed[3]

\* C7: after a resolution that popped a match every bubble on the grid is
\* connected to an occupied cell of row 0
C7_RemainingAnchored ==
    Popped => DOMAIN bubbleGrid = Anchored(bubbleGrid)

\* a pop dropped a floating bubble and left others on the grid
C7_Witness ==
    /\ Popped
    /\ stats.score % pointsPerBubble = pointsPerFloater
    /\ ~GridEmpty

\* the step pops a match and drops nothing else
PopsOnly == Pops /\ DOMAIN bubbleGrid' = DOMAIN Landed \ Matched

\* the multiplier of C8: the level
levelMultiplier == stats.level

C9_FloaterBonus ==
    [][(Pops /\ DOMAIN bubbleGrid' # DOMAIN Landed \ Matched)
          => stats'.score - stats.score - Cardinality(Matched) * pointsPerBubble
               > (Cardinality(DOMAIN Landed) - Cardinality(Matched)
                    - Cardinality(DOMAIN bubbleGrid')) * pointsPerBubble]_vars

\* the number of shots between two forced drops
ShotsPerDrop == 1

\* C10: the resolution of shot number ShotsPerDrop + 1, when it pops nothing,
\* moves every bubble down by one row
C10_ForcedDrop ==
    [][(/\ placed' # <<>>
        /\ stats.shots = ShotsPerDrop + 1
        /\ Cardinality(Matched) < minMatch)
          => \A s \in DOMAIN Landed :
                /\ Occupied(bubbleGrid', s[1] + 1, s[2])
                /\ bubbleGrid'[<<s[1] + 1, s[2]>>].color = Landed[s].color]_vars

\* C11: every bubble of the grid records the row and the column of its slot,
\* and the column is one of its row: below gridCols on even rows, below
\* gridCols - 1 on odd rows
C11_CellsValid ==
    \A s \in DOMAIN bubbleGrid :
       /\ bubbleGrid[s].row = s[1]
       /\ bubbleGrid[s].col = s[2]
       /\ s[1] \in 0..(gridRows - 1)
       /\ s[2] \in 0..(ColsInRow(s[1]) - 1)

\* the result of the call of function fn, when that call was the last one
Returned(fn) == res # <<>> /\ res.fn = fn

\* C12: the pixel centre of a valid cell, converted back with the rounding of
\* the placement code, gives the cell again, on even and on odd rows
C12_RoundTrip ==
    Returned("roundTrip") => res.out = arg

\* C13: adjacency is symmetric: every position getAdjacentPositions returns
\* for a valid cell has that cell among its own adjacent positions
C13_AdjacencySymmetric ==
    Returned("getAdjacentPositions") =>
        \A i \in 1..Len(res.out) :
           arg \in Range(getAdjacentPositions(variant, res.out[i][1], res.out[i][2]))

\* the adjacent positions of a cell of an odd row at the left wall were
\* computed by the second variant
C13_Witness ==
    /\ Returned("getAdjacentPositions")
    /\ variant = 2
    /\ arg[1] % 2 = 1
    /\ arg[2] = 0
    /\ Len(res.out) = 5

\* C14: for a valid cell getAdjacentPositions returns valid cells only, none
\* of them twice, and exactly 6 of them for a cell away from the walls
C14_AdjacentValid ==
    Returned("getAdjacentPositions") =>
        /\ Range(res.out) \subseteq ValidCells
        /\ Cardinality(Range(res.out)) = Len(res.out)
        /\ (/\ arg[1] \in 1..(gridRows - 2)
            /\ arg[2] \in 1..(ColsInRow(arg[1]) - 2)) => Len(res.out) = 6

\* findPath has returned
PathReturned == res # <<>> /\ res.fn = "findPath" /\ res.done

\* C15: findPath runs at most maxIterations iterations of its loop, and the
\* path it returns has at least two points, also when the start lies within
\* 2 * bubbleRadius of the goal
C15_PathTwoPoints ==
    (res # <<>> /\ res.fn = "findPath") =>
        /\ res.iterations <= maxIterations
        /\ res.done => Len(res.path) >= 2

\* C16: a frame schedules an auto-shoot timer only when no timer is pending
\* and no projectile is active after its update, so that at most one timer is
\* pending at any time
C16_OneTimerPending ==
    [][timers' > timers => (timers = 0 /\ ~shootingBubble'.active)]_vars

\* C17: after destroy() no scheduled callback has an effect: no frame and no
\* timer callback creates a projectile or changes the grid, the stats or the
\* gameOver flag
C17_DestroyedQuiet ==
    [][(~animationFrame /\ op' \in {"tick", "timer"})
          => /\ shootingBubble' = shootingBubble
             /\ bubbleGrid' = bubbleGrid
             /\ stats' = stats
             /\ gameOver' = gameOver]_vars

\* C18: a handler that changes the gameOver flag fires onGameStateChange, and
\* the last payload it fires is the new value of the flag
C18_StatusCallback ==
    [][gameOver' # gameOver
          => /\ events' # <<>>
             /\ events'[Len(events')] = gameOver']_vars

\* the step resolves the turn: updateShootingBubble called finishShot
Resolves == op' = "tick" /\ shootingBubble.active /\ ~shootingBubble'.active

C20_ZeroAimRejected ==
    [][(op' \in FireOps /\ (stats'.shots > stats.shots \/ shootingBubble' # shootingBubble))
          => ~shootingBubble'.nan]_vars

\* the grid is a first level created on an empty grid
FreshBoard ==
    \E draw \in LevelDraws(variant, 1) :
       bubbleGrid = FreshGames[variant][draw][currentBubble].c.grid

\* the counters and the projectile after resetGame()
ResetClean ==
    /\ stats.score = 0
    /\ stats.level = 1
    /\ stats.shots = 0
    /\ ~shootingBubble.active
    /\ FreshBoard

\* C21 as stated: after resetGame() score and shots are 0, the level is 1, no
\* projectile is active, the grid holds the bubbles of the new level only and
\* the gameOver flag is off
C21_ResetPlaying ==
    op = "resetGame" => (ResetClean /\ ~gameOver)

\* C21 amended: after resetGame() score and shots are 0, the level is 1, no
\* projectile is active and the grid holds the bubbles of the new level only;
\* the gameOver flag is off unless createLevel drew no bubble at all
C21_ResetFresh ==
    op = "resetGame" => (ResetClean /\ (gameOver <=> GridEmpty))

\* resetGame() ran in AI mode with a timer pending and drew a level with bubbles
C21_Witness ==
    /\ op = "resetGame"
    /\ aiMode
    /\ timers > 0
    /\ ~GridEmpty
    /\ ~gameOver

\* the boards createLevel makes of an empty grid at a level
NewBoards(v, level) ==
    {createLevel(v, [grid |-> EmptyGrid, score |-> 0, bubblesLeft |-> 0,
                     gameOver |-> FALSE, events |-> <<>>, placed |-> <<>>],
                 level, draw).grid : draw \in LevelDraws(v, level)}

\* C22: nextLevel() raises the level by one, keeps the score, leaves no
\* projectile active and the gameOver flag off, and the grid afterwards is a
\* new board of the level: no bubble of the old grid is left on it
C22_NextLevelFresh ==
    [][op' = "nextLevel"
          => /\ stats'.level = stats.level + 1
             /\ stats'.score = stats.score
             /\ ~shootingBubble'.active
             /\ ~gameOver'
             /\ bubbleGrid' \in NewBoards(variant, stats'.level)]_vars

\* the projectile after its move in the next frame, and the slot it hits
Moved == MoveShot(shootingBubble)
MovedHit == HitSlot(bubbleGrid, Moved)

\* the next frame resolves the flight in handleBubbleCollision (in the first
\* variant the ceiling and the miss are tested before the bubbles)
BubbleCollision ==
    /\ shootingBubble.active
    /\ ~shootingBubble.nan
    /\ ~isPaused
    /\ MovedHit # <<>>
    /\ variant = 1 => (Moved.y > Px(bubbleRadius) /\ Moved.y <= Px(canvasHeight - 30))

\* none of the positions adjacent to the hit bubble is an empty candidate
NoCandidate == TargetPos(variant, bubbleGrid, Moved, MovedHit[1], MovedHit[2]) = <<>>

\* C23: a bubble collision that finds no empty candidate cell next to the hit
\* bubble leaves the grid and the score as they are, clears the projectile
\* and makes the next bubble the current one
C23_DiscardedShot ==
    [][(op' = "tick" /\ BubbleCollision /\ NoCandidate)
          => /\ bubbleGrid' = bubbleGrid
             /\ stats'.score = stats.score
             /\ shootingBubble' = NoShot
             /\ currentBubble' = nextBubble]_vars

\* a frame resolved a shot without placing it, and a bubble of the last row
\* has no empty cell next to it
C23_Witness ==
    /\ op = "tick"
    /\ placed = <<>>
    /\ statsEvents >= 1
    /\ ~shootingBubble.active
    /\ \E s \in DOMAIN bubbleGrid :
          /\ s[1] = gridRows - 1
          /\ TargetPos(variant, bubbleGrid,
                       [x |-> CellX(s[1], s[2]), y |-> CellY(s[1], s[2])],
                       s[1], s[2]) = <<>>

\* the colours of the bubbles on a grid
GridColors(grid) == {grid[s].color : s \in DOMAIN grid}

\* C24: when a shot has been resolved and the grid is not empty, the colour of
\* the next bubble spawned by finishShot is a colour of a bubble on the grid
C24_SpawnOnGrid ==
    [][(op' = "tick" /\ shootingBubble.active /\ ~shootingBubble'.active
          /\ DOMAIN bubbleGrid' # {})
          => nextBubble' \in GridColors(bubbleGrid')]_vars

\* C25: a resolution whose placed bubble ends in a same-coloured component of
\* fewer than 3 cells removes nothing and leaves the score: the grid is the
\* grid before with the placed bubble added
C25_SmallGroupStays ==
    [][(placed' # <<>> /\ Cardinality(Matched) < minMatch)
          => /\ bubbleGrid' = Landed
             /\ stats'.score = stats.score]_vars

\* the placed bubble is on the grid in a component of fewer than 3, next to a
\* group of 3 or more of another colour
C25_Witness ==
    /\ op = "tick"
    /\ placed # <<>>
    /\ Occupied(bubbleGrid, placed[1], placed[2])
    /\ Cardinality(Component(bubbleGrid, <<placed[1], placed[2]>>)) < minMatch
    /\ \E s \in DOMAIN bubbleGrid :
          /\ bubbleGrid[s].color # placed[3]
          /\ Cardinality(Component(bubbleGrid, s)) >= minMatch

\* the positions adjacent to the hit bubble, in scan order, and those of them
\* that are empty cells of the lattice
HitAdjacent == getAdjacentPositions(variant, MovedHit[1], MovedHit[2])
Candidates == {p \in Range(HitAdjacent) : p \in ValidCells /\ ~Occupied(bubbleGrid, p[1], p[2])}

\* the first position in scan order among the candidates nearest to the projectile
NearestCandidate ==
    LET nearest == {p \in Candidates :
                      \A q \in Candidates : CellDist2(Moved, p) <= CellDist2(Moved, q)}
        first == CHOOSE i \in DOMAIN HitAdjacent :
                    /\ HitAdjacent[i] \in nearest
                    /\ \A j \in 1..(i - 1) : HitAdjacent[j] \notin nearest
    IN HitAdjacent[first]

\* C26: a bubble collision with an empty candidate cell places the projectile
\* in the candidate whose centre is nearest to the projectile's position, the
\* first one in scan order among equally near ones, in both variants
C26_NearestPlacement ==
    [][(op' = "tick" /\ BubbleCollision /\ Candidates # {})
          => /\ placed' # <<>>
             /\ PlacedSlot = NearestCandidate]_vars

\* C27: a frame changes no bubble that stays on the grid, adds at most the
\* placed bubble and only into a cell that was empty, and removes bubbles only
\* when the placed bubble completes a match; apart from the frames only
\* resetGame empties a cell
C27_NoOverwrite ==
    [][/\ op' = "tick" =>
            /\ \A s \in DOMAIN bubbleGrid \cap DOMAIN bubbleGrid' :
                  bubbleGrid'[s] = bubbleGrid[s]
            /\ DOMAIN bubbleGrid' \ DOMAIN bubbleGrid
                  \subseteq (IF placed' # <<>> THEN {PlacedSlot} ELSE {})
            /\ placed' # <<>> => ~Occupied(bubbleGrid, placed'[1], placed'[2])
            /\ DOMAIN bubbleGrid \ DOMAIN bubbleGrid' # {} => Pops
       /\ op' \notin {"tick", "resetGame"} =>
            DOMAIN bubbleGrid \subseteq DOMAIN bubbleGrid']_vars

\* a frame put the projectile in a cell of the ceiling row, where it still is
C27_Witness ==
    /\ op = "tick"
    /\ placed # <<>>
    /\ placed[1] = 0
    /\ Occupied(bubbleGrid, 0, placed[2])
    /\ bubbleGrid[<<0, placed[2]>>].color = placed[3]
    /\ Cardinality(DOMAIN bubbleGrid) >= 2

\* C28: with the frames coming and no pause, an active projectile is
\* eventually resolved, whatever the direction of the aim
C28_ShotResolves == shootingBubble.active ~> ~shootingBubble.active

\* the last step was the frame that resolved a shot
JustResolved == op = "tick" /\ statsEvents >= 1 /\ ~shootingBubble.active

\* C29: the timers have one fixed delay and fire in the order they were set,
\* so a shot dispatched at least that delay after the previous resolution
\* comes from a timer set by the resolving frame or later: when a timer
\* dispatches a shot right after the resolving frame, it is the only one pending
C29_DelayAfterResolution ==
    [][(JustResolved /\ op' = "timer" /\ shootingBubble'.active) => timers = 1]_vars

\* C30: while AI mode is off, a timer callback dispatches no shot: it creates
\* no projectile and counts no shot, whenever the timer was set
C30_NoAutoShotWhenOff ==
    [][(~aiMode /\ op' = "timer")
          => /\ shootingBubble' = shootingBubble
             /\ stats'.shots = stats.shots]_vars

\* the x coordinate the next frame gives the projectile before the wall test
RawX == shootingBubble.x + shootingBubble.vx

\* C31: after a frame an active projectile has an x coordinate (not NaN) within
\* [bubbleRadius, width - bubbleRadius], and a frame that moves it to or past
\* a side wall reverses the sign of its horizontal velocity
C31_InsideWalls ==
    [][(op' = "tick" /\ ~isPaused /\ shootingBubble.active /\ shootingBubble'.active)
          => /\ ~shootingBubble'.nan
             /\ shootingBubble'.x >= Px(bubbleRadius)
             /\ shootingBubble'.x <= Px(canvasWidth - bubbleRadius)
             /\ (RawX <= Px(bubbleRadius) \/ RawX >= Px(canvasWidth - bubbleRadius))
                   => shootingBubble'.vx = -shootingBubble.vx]_vars

\* the column handleTopCollision derives from the moved projectile
TopCol == Max(0, Min(gridCols - 1, NearestCol(Moved.x)))

\* C32: a frame that moves the projectile to y <= bubbleRadius resolves it,
\* with or without a bubble in contact, and places it in the row-0 cell of
\* the nearest column when that cell is empty
C32_CeilingResolves ==
    [][(op' = "tick" /\ ~isPaused /\ shootingBubble.active /\ ~shootingBubble.nan
          /\ Moved.y <= Px(bubbleRadius))
          => /\ ~shootingBubble'.active
             /\ ~Occupied(bubbleGrid, 0, TopCol)
                   => placed' = <<0, TopCol, shootingBubble.color>>]_vars

\* the empty cells of the lattice next to a bubble of the current bubble's colour
AimCandidates ==
    {p \in ValidCells :
       /\ ~Occupied(bubbleGrid, p[1], p[2])
       /\ \E q \in Range(getAdjacentPositions(1, p[1], p[2])) :
             Occupied(bubbleGrid, q[1], q[2]) /\ bubbleGrid[q].color = currentBubble}

\* C33: whenever an empty cell next to a bubble of the current colour exists,
\* the AI path aims at such a cell, and at one of the highest row among them,
\* whether the rows are counted from the shooter or from the ceiling
C33_AimHighestRow ==
    AimCandidates # {}
       => /\ Len(currentPath) >= 2
          /\ \E p \in AimCandidates :
                /\ currentPath[2] = CellPoint(p)
                /\ \/ \A q \in AimCandidates : q[1] <= p[1]
                   \/ \A q \in AimCandidates : q[1] >= p[1]

\* squared distance between the pixel centres of two cells
CentreDist2(s, t) ==
    LET a == GridToPixel(s[1], s[2])
        b == GridToPixel(t[1], t[2])
    IN (a[1] - b[1]) * (a[1] - b[1]) + (a[2] - b[2]) * (a[2] - b[2])

\* C34: the pixel centre of every position adjacent to a valid cell is exactly
\* 2 * bubbleRadius away from the centre of the cell, in the row and across rows
C34_EqualDistance ==
    Returned("getAdjacentPositions") =>
        \A i \in 1..Len(res.out) :
           CentreDist2(arg, res.out[i]) = Px(2 * bubbleRadius) * Px(2 * bubbleRadius)

\* the nodes of the open set and of the closed set of the search in res
SearchNodes == Range(res.openSet) \cup Range(res.closedSet)

\* the scores of node n agree with its place, its parent and the goal
ScoresConsistent(n, closedSet, goal) ==
    /\ n.gScore = closedSet[n.parent].gScore
                      + distance(NodePoint(closedSet[n.parent]), NodePoint(n))
    /\ n.hScore = calculateHeuristic(NodePoint(n), goal)
    /\ n.fScore = n.gScore + n.hScore

PathFound ==
    /\ PathReturned
    /\ Len(res.closedSet) > 0
    /\ Dist2(NodePoint(res.closedSet[Len(res.closedSet)]), arg.goal)
          <= Px(bubbleRadius * 2) * Px(bubbleRadius * 2)

\* C36: every path findPath returns begins at the start; a found path ends
\* within 2 * bubbleRadius of the goal, each of its waypoints is a closed node
\* whose parent is the waypoint before it, and no waypoint repeats; when the
\* search gives up the path is exactly [start, goal]
C36_ReturnedPath ==
    PathReturned =>
        /\ Len(res.path) >= 1
        /\ res.path[1] = arg.start
        /\ PathFound =>
              /\ Dist2(res.path[Len(res.path)], arg.goal)
                    <= Px(bubbleRadius * 2) * Px(bubbleRadius * 2)
              /\ \A i \in 2..Len(res.path) :
                    \E j \in DOMAIN res.closedSet :
                       /\ NodePoint(res.closedSet[j]) = res.path[i]
                       /\ res.closedSet[j].parent # 0
                       /\ NodePoint(res.closedSet[res.closedSet[j].parent]) = res.path[i - 1]
              /\ Cardinality(Range(res.path)) = Len(res.path)
        /\ ~PathFound => res.path = <<arg.start, arg.goal>>

\* a search has found a path of more than two waypoints
C36_Witness == PathFound /\ Len(res.path) > 2

\* a search has given up at the cap of its iterations
GaveUpAtCap == PathReturned /\ ~PathFound /\ res.iterations = maxIterations

\* a search has given up with an empty open set
GaveUpExhausted == PathReturned /\ ~PathFound /\ Len(res.openSet) = 0

\* the places of the nodes of the open set and the closed set of search f
SearchPoints(f) ==
    {NodePoint(f.openSet[i]) : i \in DOMAIN f.openSet}
       \cup {NodePoint(f.closedSet[i]) : i \in DOMAIN f.closedSet}

\* the two points are at the same place: both coordinates less than 10 px apart
Near(p, q) == Abs(p[1] - q[1]) < Px(10) /\ Abs(p[2] - q[2]) < Px(10)

\* C37: during a search no two distinct nodes of the open and the closed set
\* together are at the same place, and a closed node stays closed.  Stated
\* step by step: the search starts with one node; an iteration keeps every
\* node where it is, every node it adds is at the place of no other node, and
\* it closes one node more, which was open, leaving the closed ones as they are
C37_NoDuplicateNodes ==
    [][(res' # <<>> /\ res'.fn = "findPath")
          => /\ Cardinality(SearchPoints(res')) = Len(res'.openSet) + Len(res'.closedSet)
             /\ res = <<>> => Len(res'.openSet) + Len(res'.closedSet) = 1
             /\ res # <<>>
                   => /\ SearchPoints(res) \subseteq SearchPoints(res')
                      /\ \A p \in SearchPoints(res') \ SearchPoints(res) :
                            \A q \in SearchPoints(res') : q # p => ~Near(p, q)
             /\ (res # <<>> /\ res'.iterations > res.iterations)
                   => /\ Len(res'.closedSet) = Len(res.closedSet) + 1
                      /\ SubSeq(res'.closedSet, 1, Len(res.closedSet)) = res.closedSet
                      /\ res'.closedSet[Len(res'.closedSet)] \in Range(res.openSet)]_vars

\* an iteration has met a neighbour at the place of a node closed before and
\* a neighbour at the place of an open node
C37_Witness ==
    /\ res # <<>>
    /\ res.fn = "findPath"
    /\ ~res.done
    /\ Len(res.closedSet) >= 2
    /\ LET current == res.closedSet[Len(res.closedSet)]
           neighbors == Range(getNeighbors(NodePoint(current), arg.obstacles))
       IN /\ \E q \in neighbors :
                \E j \in 1..(Len(res.closedSet) - 1) : SamePlace(res.closedSet[j], q)
          /\ \E q \in neighbors :
                \E j \in DOMAIN res.openSet :
                   SamePlace(res.openSet[j], q) /\ NodePoint(res.openSet[j]) # q

\* C38: after every resolution of a turn the statistic bubblesLeft is the
\* number of occupied cells of the grid, also when the shot placed a bubble
\* that completed no match
C38_BubblesLeftCounts ==
    [][Resolves => stats'.bubblesLeft = Cardinality(DOMAIN bubbleGrid')]_vars

\* C39: the statistic accuracy is a percentage: it lies between 0 and 100
C39_AccuracyPercentage ==
    stats.accuracy >= 0 /\ stats.accuracy <= 100

====
